---- MODULE Spec2Model ----
(***************************************************************************)
(* Layout Autofix (poznik/VIBENTO): the layout watcher, the in-flight      *)
(* guard and the capture -> transform -> replace -> restore pipeline of    *)
(* layout_autofix/app.py, with the layout mapper of                        *)
(* layout_autofix/detector.py.                                             *)
(*                                                                         *)
(* Texts are sequences of Unicode code points.  None is the Python None.   *)
(***************************************************************************)
EXTENDS Integers, Sequences, FiniteSets, TLC

\* ------------------------------------------------------------- bounds
\* Conversion threads the model can hold at once (the code creates a fresh
\* thread per trigger; the guard is what keeps them to one).
MaxThreads == 2
\* Layout transitions acted upon in one behaviour (also the marker clock).
MaxRuns == 2
\* Clipboard polls that fit into one clipboard-change wait before its deadline.
MaxPolls == 2
\* Polls before the deadline of a _wait_for_clipboard_change call studied alone.
MaxReads == 3
\* Length of the texts built from SampleChars and given to switch_layout.
MaxWordLen == 2
\* Calls of _read_selected_text_ax (one per conversion) in one behaviour.
MaxAxReads == 5
\* Calls of enable() and disable() in one behaviour.
MaxAutostartCalls == 6
\* selection_copy_wait_timeout_seconds in poll intervals, for the copy call
\* studied against a clock (0.35 s / 0.03 s is about 12 in the defaults).
TimeoutTicks == 6
\* how many input sources `defaults read` lists at most
MaxLayoutNames == 2

Threads == 1..MaxThreads

\* ------------------------------------------------------------- values
None == <<-1>>
NoLayout == "None"
Layouts == {"EN", "RUS"}

\* "gh" (which the RUS table changes), "1" (which no table changes) and the
\* empty text
TextGh == <<103, 104>>
TextOne == <<49>>
TextEmpty == <<>>
\* what the user's clipboard may hold before a run
UserClipboards == {<<120>>, TextEmpty}
\* what may be selected in the focused control
Selections == {TextEmpty, TextGh, TextOne}

\* f"__layout_autofix_marker_{time.monotonic_ns()}__": code point 0 stands for
\* the fixed prefix, n for the clock reading.
MarkerOf(n) == <<0, n>>

\* ------------------------------------------------------ layout mapper
EN_TO_RU_PAIRS ==
    { <<96, 1105>>, <<113, 1081>>, <<119, 1094>>, <<101, 1091>>, <<114, 1082>>,
      <<116, 1077>>, <<121, 1085>>, <<117, 1075>>, <<105, 1096>>, <<111, 1097>>,
      <<112, 1079>>, <<91, 1093>>, <<93, 1098>>, <<97, 1092>>, <<115, 1099>>,
      <<100, 1074>>, <<102, 1072>>, <<103, 1087>>, <<104, 1088>>, <<106, 1086>>,
      <<107, 1083>>, <<108, 1076>>, <<59, 1078>>, <<39, 1101>>, <<122, 1103>>,
      <<120, 1095>>, <<99, 1089>>, <<118, 1084>>, <<98, 1080>>, <<110, 1090>>,
      <<109, 1100>>, <<44, 1073>>, <<46, 1102>>, <<47, 46>> }

EN_TO_RU == [k \in {p[1] : p \in EN_TO_RU_PAIRS} |->
                (CHOOSE p \in EN_TO_RU_PAIRS : p[1] = k)[2]]

\* {value: key for key, value in EN_TO_RU.items()}
RU_TO_EN == [v \in {p[2] : p \in EN_TO_RU_PAIRS} |->
                (CHOOSE p \in EN_TO_RU_PAIRS : p[2] = v)[1]]

\* str.isupper / str.lower / str.upper on one character, for ASCII and the
\* Cyrillic block U+0400..U+045F (A-Z 65..90; capitals U+0400..U+042F, whose
\* small letters are U+0450..U+045F for the first sixteen and U+0430..U+044F
\* for the rest).
IsUpper(ch) == (ch \in 65..90) \/ (ch \in 1024..1071)

Lower(ch) ==
    IF (ch \in 65..90) \/ (ch \in 1040..1071) THEN ch + 32
    ELSE IF ch \in 1024..1039 THEN ch + 80
    ELSE ch

Upper(ch) ==
    IF (ch \in 97..122) \/ (ch \in 1072..1103) THEN ch - 32
    ELSE IF ch \in 1104..1119 THEN ch - 80
    ELSE ch

\* the characters on which the three operators above are str's: ASCII and
\* U+0400..U+045F
Universe == (0..127) \cup (1024..1119)

\* lines 51-55 with `converted.append(base)`: the case of the input is dropped
SwitchCharDropsCase(ch, to_layout) ==
    LET mapping == IF to_layout = "RUS" THEN EN_TO_RU ELSE RU_TO_EN
    IN  IF Lower(ch) \notin DOMAIN mapping THEN ch ELSE mapping[Lower(ch)]

\* lines 51-55 with `converted.append(ch.lower())` for an unmapped character
SwitchCharLowersUnmapped(ch, to_layout) ==
    LET mapping == IF to_layout = "RUS" THEN EN_TO_RU ELSE RU_TO_EN
    IN  IF Lower(ch) \notin DOMAIN mapping THEN Lower(ch)
        ELSE IF IsUpper(ch) THEN Upper(mapping[Lower(ch)])
        ELSE mapping[Lower(ch)]

\* one iteration of the loop of switch_layout
SwitchChar(ch, to_layout) ==
    LET mapping == IF to_layout = "RUS" THEN EN_TO_RU ELSE RU_TO_EN
    IN  IF Lower(ch) \notin DOMAIN mapping THEN ch
        ELSE IF IsUpper(ch) THEN Upper(mapping[Lower(ch)])
        ELSE mapping[Lower(ch)]

\* what a call that raised ValueError("to_layout must be EN or RUS") gives
ValueError == <<-2>>

\* switch_layout without lines 45-46: any other layout is taken for "EN"
SwitchLayoutUnchecked(word, to_layout) ==
    [i \in 1..Len(word) |-> SwitchChar(word[i], to_layout)]

\* switch_layout(word, to_layout): the text returned, or ValueError
switch_layout(word, to_layout) ==
    IF to_layout \notin {"EN", "RUS"} THEN ValueError
    ELSE [i \in 1..Len(word) |-> SwitchChar(word[i], to_layout)]

\* ------------------------------------------------------ layout reading
\* What `defaults read com.apple.HIToolbox AppleSelectedInputSources` gave:
\* the command failed (ok = FALSE), or the "KeyboardLayout Name" values that
\* re.findall finds in its output, in order (line 482), quotes stripped.
\* ABC, U.S., English, Russian, Русская, German, Dvorak
NameABC == <<65, 66, 67>>
NameUS == <<85, 46, 83, 46>>
NameEnglish == <<69, 110, 103, 108, 105, 115, 104>>
NameRussian == <<82, 117, 115, 115, 105, 97, 110>>
NameRusskaya == <<1056, 1091, 1089, 1089, 1082, 1072, 1103>>
NameGerman == <<71, 101, 114, 109, 97, 110>>
NameDvorak == <<68, 118, 111, 114, 97, 107>>
LayoutNames ==
    {NameABC, NameUS, NameEnglish, NameRussian, NameRusskaya, NameGerman,
     NameDvorak}

\* at most MaxLayoutNames input sources are selected at once
DefaultsOutputs ==
    {[ok |-> FALSE, names |-> <<>>]}
      \cup {[ok |-> TRUE, names |-> ns] :
               ns \in UNION {[1..n -> LayoutNames] : n \in 0..MaxLayoutNames}}

\* str.lower
LowerText(s) == [i \in 1..Len(s) |-> Lower(s[i])]

\* `sub in s`
Contains(sub, s) ==
    \E i \in 0..(Len(s) - Len(sub)) : SubSeq(s, i + 1, i + Len(sub)) = sub

\* lines 488-496 with the lower-cased name returned for a layout that is
\* neither Russian nor English
GetCurrentLayoutNamesUnknown(output) ==
    IF ~output.ok THEN NoLayout
    ELSE IF output.names = <<>> THEN NoLayout
    ELSE LET current_name == LowerText(output.names[Len(output.names)])
         IN  IF Contains(<<114, 117, 115, 115, 105, 97, 110>>, current_name) \/ Contains(<<1088, 1091, 1089>>, current_name)
             THEN "RUS"
             ELSE IF \/ Contains(<<97, 98, 99>>, current_name)
                     \/ Contains(<<117, 46, 115, 46>>, current_name)
                     \/ Contains(<<101, 110, 103, 108, 105, 115, 104>>, current_name)
             THEN "EN"
             ELSE "OTHER"

\* _get_current_layout, lines 472-496
GetCurrentLayout(output) ==
    IF ~output.ok THEN NoLayout
    ELSE IF output.names = <<>> THEN NoLayout
    ELSE LET current_name == LowerText(output.names[Len(output.names)])
         IN  IF Contains(<<114, 117, 115, 115, 105, 97, 110>>, current_name) \/ Contains(<<1088, 1091, 1089>>, current_name)
             THEN "RUS"
             ELSE IF \/ Contains(<<97, 98, 99>>, current_name)
                     \/ Contains(<<117, 46, 115, 46>>, current_name)
                     \/ Contains(<<101, 110, 103, 108, 105, 115, 104>>, current_name)
             THEN "EN"
             ELSE NoLayout

\* what a call of _get_current_layout can return
LayoutReadings == {GetCurrentLayout(output) : output \in DefaultsOutputs}

\* -------------------------------------------------------------- state
VARIABLES
    \* run_forever (the watcher thread)
    wpc,                \* where the watcher is
    previous_layout,    \* run_forever's local
    current_layout,     \* _poll_layout_once's local (NoLayout between polls)
    pollTriggers,       \* history: the triggers the poll in progress has issued
    lastPoll,           \* history: the poll that has just finished (else NoPoll)
    \* AutoLayoutFixer fields
    _conversion_active,
    _stop_event,
    _lock,
    \* conversion threads (_convert_selected_text_after_switch), per thread
    pc,
    target_layout,
    selected_text,
    previous_clipboard,     \* the pipeline's local (line 108)
    cap_previous_clipboard, \* _capture_selected_text's local (line 167)
    marker,
    converted,
    polls,              \* polls done by the _wait_for_clipboard_change in progress
    raised,             \* the except clause of line 141 has run
    events,             \* history: what the run has done, in order
    clipAtStart,        \* history: the clipboard when the run started
    \* the environment
    clipboard,          \* the OS clipboard (pbcopy / pbpaste)
    selection,          \* the text selected in the focused control
    pendingCopy,        \* a copy keystroke the focused application has not served yet
    runs                \* threads started so far (the monotonic clock of the markers)

\* one call of _wait_for_clipboard_change, driven by a given series of reads
VARIABLES
    w_reads,            \* what _read_clipboard returns, poll by poll, until the deadline
    w_pos,              \* polls done (attempts)
    w_pc,               \* "idle", "polling" or "returned"
    w_ret               \* the value returned

\* calls of switch_layout on given arguments
VARIABLES
    m_word,             \* the text given to the first call
    m_layout,           \* the to_layout given to the first call
    m_pc,               \* "idle", "input", "switched" or "back"
    m_out,              \* what the first call returned (ValueError when it raised)
    m_layout2,          \* the to_layout of a second call, made on m_out
    m_back              \* what the second call returned

\* the accessibility permission over the life of the process
VARIABLES
    ax_pc,              \* "idle", "startup" or "running"
    ax_api,             \* what HIServices offers: "none", "noprompt" or "full"
    ax_trusted,         \* the user has granted the permission
    _ax_warning_logged,
    ax_prompts,         \* calls of AXIsProcessTrustedWithOptions so far
    ax_reads,           \* calls of _read_selected_text_ax so far
    ax_err              \* err of the last focused-element query (line 226)

\* LaunchAgentAutostart and what it acts upon
VARIABLES
    plist_exists,       \* plist_path.exists()
    agent_loaded,       \* launchd has the agent bootstrapped
    launchctl_calls,    \* history: the launchctl subcommands of the last call
    as_ops,             \* history: what the last call did to the plist file and
                        \* to launchd, in order
    as_history,         \* history: the calls made so far, "enable" or "disable"
    as_raised           \* history: the last call ended by an exception

\* one call of _copy_selected_text_to_clipboard against a clock
VARIABLES
    cp_pc,              \* "idle", "primary", "wait1", "fallback", "wait2",
                        \* "returned" or "raised"
    cp_clock,           \* time.monotonic(), in poll intervals since the call
    cp_deadline,        \* deadline of the wait in progress (line 402)
    cp_first_deadline,  \* history: deadline of the first wait of the call
    cp_keys,            \* history: the copy keystrokes sent
    cp_sel,             \* the text selected in the focused control
    cp_clip,            \* the clipboard
    cp_ret              \* the value returned

wvars == <<wpc, previous_layout, current_layout, pollTriggers, lastPoll>>
fvars == <<_conversion_active, _stop_event, _lock>>
tlocals == <<target_layout, selected_text, previous_clipboard,
             cap_previous_clipboard, marker, converted, polls, raised, clipAtStart>>
tvars == <<pc, tlocals, events>>
evars == <<clipboard, selection, pendingCopy, runs>>
waitvars == <<w_reads, w_pos, w_pc, w_ret>>
\* the variables of the pipeline, and those of the functions studied alone
pipevars == <<wvars, fvars, tvars, evars>>
mapvars == <<m_word, m_layout, m_pc, m_out, m_layout2, m_back>>
axvars == <<ax_pc, ax_api, ax_trusted, _ax_warning_logged, ax_prompts, ax_reads,
           ax_err>>
autovars ==
    <<plist_exists, agent_loaded, launchctl_calls, as_ops, as_history, as_raised>>
copyvars == <<cp_pc, cp_clock, cp_deadline, cp_first_deadline, cp_keys, cp_sel,
             cp_clip, cp_ret>>
auxvars == <<waitvars, mapvars, axvars, autovars, copyvars>>
vars == <<pipevars, auxvars>>

NoPoll == [prev |-> NoLayout, cur |-> NoLayout, triggers |-> <<>>, ret |-> "none"]

Running(t) == pc[t] \notin {"none", "done"}

\* no call of _wait_for_clipboard_change is being studied
WaitIdle ==
    /\ w_reads = <<>>
    /\ w_pos = 0
    /\ w_pc = "idle"
    /\ w_ret = None

\* no call of switch_layout is being studied
MapperIdle ==
    /\ m_word = TextEmpty
    /\ m_layout = NoLayout
    /\ m_pc = "idle"
    /\ m_out = None
    /\ m_layout2 = NoLayout
    /\ m_back = None

\* the accessibility permission is not being studied
AxIdle ==
    /\ ax_pc = "idle"
    /\ ax_api = "none"
    /\ ax_trusted = FALSE
    /\ _ax_warning_logged = FALSE
    /\ ax_prompts = 0
    /\ ax_reads = 0
    /\ ax_err = "none"

\* LaunchAgentAutostart is not being studied
AutostartIdle ==
    /\ plist_exists = FALSE
    /\ agent_loaded = FALSE
    /\ launchctl_calls = <<>>
    /\ as_ops = <<>>
    /\ as_history = <<>>
    /\ as_raised = FALSE

\* no call of _copy_selected_text_to_clipboard is being studied
CopyIdle ==
    /\ cp_pc = "idle"
    /\ cp_clock = 0
    /\ cp_deadline = 0
    /\ cp_first_deadline = 0
    /\ cp_keys = <<>>
    /\ cp_sel = TextEmpty
    /\ cp_clip = TextEmpty
    /\ cp_ret = None

\* the fixer after construction, before run_forever
PipelineInit ==
    /\ wpc = "init_read"
    /\ previous_layout = NoLayout
    /\ current_layout = NoLayout
    /\ pollTriggers = <<>>
    /\ lastPoll = NoPoll
    /\ _conversion_active = FALSE
    /\ _stop_event = FALSE
    /\ _lock = "free"
    /\ pc = [t \in Threads |-> "none"]
    /\ target_layout = [t \in Threads |-> NoLayout]
    /\ selected_text = [t \in Threads |-> None]
    /\ previous_clipboard = [t \in Threads |-> None]
    /\ cap_previous_clipboard = [t \in Threads |-> None]
    /\ marker = [t \in Threads |-> None]
    /\ converted = [t \in Threads |-> None]
    /\ polls = [t \in Threads |-> 0]
    /\ raised = [t \in Threads |-> FALSE]
    /\ events = [t \in Threads |-> <<>>]
    /\ clipAtStart = [t \in Threads |-> None]
    /\ clipboard \in UserClipboards
    /\ selection = TextEmpty
    /\ pendingCopy = FALSE
    /\ runs = 0

Init ==
    PipelineInit /\ WaitIdle /\ MapperIdle /\ AxIdle /\ AutostartIdle /\ CopyIdle

\* ------------------------------------------------------------ watcher
\* run_forever, line 43: the startup read (EN, RUS or unreadable)
RunForeverStart ==
    /\ wpc = "init_read"
    /\ \E initial \in LayoutReadings : previous_layout' = initial
    /\ wpc' = "loop"
    /\ UNCHANGED <<current_layout, pollTriggers, lastPoll, fvars, tvars, evars>>
    /\ UNCHANGED auxvars

\* line 59 with a loop that does not test the stop event
WatcherLoopTestIgnoresStop ==
    /\ wpc = "loop"
    /\ wpc' = "poll"
    /\ lastPoll' = NoPoll
    /\ UNCHANGED <<previous_layout, current_layout, pollTriggers,
                   fvars, tvars, evars>>
    /\ UNCHANGED auxvars

\* run_forever, line 59: the loop test, then the sleep of line 60
WatcherLoopTest ==
    /\ wpc = "loop"
    /\ wpc' = IF _stop_event THEN "stopped" ELSE "poll"
    /\ lastPoll' = NoPoll
    /\ UNCHANGED <<previous_layout, current_layout, pollTriggers,
                   fvars, tvars, evars>>
    /\ UNCHANGED auxvars

\* stop(), called from the GUI thread
Stop ==
    /\ ~_stop_event
    /\ _stop_event' = TRUE
    /\ UNCHANGED <<wvars, _conversion_active, _lock, tvars, evars>>
    /\ UNCHANGED auxvars

\* line 77: the condition under which a poll issues a trigger
ShouldTriggerNoPrevCheck(previous, current) == current # previous

ShouldTrigger(previous, current) ==
    previous # NoLayout /\ current # previous

\* what a poll that issues no trigger returns (lines 75 and 85)
PollResultKeepsPrevious(previous, current) == previous

PollResult(previous, current) ==
    IF current = NoLayout THEN previous ELSE current

\* _poll_layout_once up to its return or to the call of line 83.  The user
\* switches layouts MaxRuns times at most.
PollLayoutOnce ==
    /\ wpc = "poll"
    /\ \E current \in LayoutReadings :
         /\ (current # NoLayout /\ previous_layout # NoLayout
               /\ current # previous_layout) => runs < MaxRuns
         /\ IF current # NoLayout /\ ShouldTrigger(previous_layout, current)
            THEN /\ current_layout' = current
                 /\ pollTriggers' = <<current>>
                 /\ lastPoll' = NoPoll
                 /\ wpc' = "sched_acquire"
                 /\ UNCHANGED previous_layout
            ELSE /\ UNCHANGED <<current_layout, pollTriggers>>
                 /\ lastPoll' = [prev |-> previous_layout, cur |-> current,
                                 triggers |-> <<>>,
                                 ret |-> PollResult(previous_layout, current)]
                 /\ previous_layout' = PollResult(previous_layout, current)
                 /\ wpc' = "loop"
    /\ UNCHANGED <<fvars, tvars, evars>>
    /\ UNCHANGED auxvars

\* line 88 with a lock that a running conversion keeps for its whole run
ScheduleAcquireLockWaitsForConversion ==
    /\ wpc = "sched_acquire"
    /\ _lock = "free"
    /\ ~_conversion_active
    /\ _lock' = "watcher"
    /\ wpc' = "sched_check"
    /\ UNCHANGED <<previous_layout, current_layout, pollTriggers, lastPoll,
                   _conversion_active, _stop_event, tvars, evars>>
    /\ UNCHANGED auxvars

\* _schedule_selection_conversion, line 88: with self._lock
ScheduleAcquireLock ==
    /\ wpc = "sched_acquire"
    /\ _lock = "free"
    /\ _lock' = "watcher"
    /\ wpc' = "sched_check"
    /\ UNCHANGED <<previous_layout, current_layout, pollTriggers, lastPoll,
                   _conversion_active, _stop_event, tvars, evars>>
    /\ UNCHANGED auxvars

\* lines 89-98 with the skip branch clearing the guard it found held
ScheduleDropClearsGuard ==
    /\ wpc = "sched_check"
    /\ _lock = "watcher"
    /\ IF _conversion_active
       THEN /\ wpc' = "poll_return"
            /\ _conversion_active' = FALSE
       ELSE /\ _conversion_active' = TRUE
            /\ wpc' = "thread_start"
    /\ _lock' = "free"
    /\ UNCHANGED <<previous_layout, current_layout, pollTriggers, lastPoll,
                   _stop_event, tvars, evars>>
    /\ UNCHANGED auxvars

\* lines 89-98 without the test of line 89
ScheduleSetUnguarded ==
    /\ wpc = "sched_check"
    /\ _lock = "watcher"
    /\ _conversion_active' = TRUE
    /\ wpc' = "thread_start"
    /\ _lock' = "free"
    /\ UNCHANGED <<previous_layout, current_layout, pollTriggers, lastPoll,
                   _stop_event, tvars, evars>>
    /\ UNCHANGED auxvars

\* lines 89-98: the check and the set under the lock, which leaving the with
\* block releases
ScheduleCheckAndSet ==
    /\ wpc = "sched_check"
    /\ _lock = "watcher"
    /\ IF _conversion_active
       THEN /\ wpc' = "poll_return"
            /\ UNCHANGED _conversion_active
       ELSE /\ _conversion_active' = TRUE
            /\ wpc' = "thread_start"
    /\ _lock' = "free"
    /\ UNCHANGED <<previous_layout, current_layout, pollTriggers, lastPoll,
                   _stop_event, tvars, evars>>
    /\ UNCHANGED auxvars

\* the slot a fresh thread takes
FreshThread == CHOOSE t \in Threads :
                  /\ ~Running(t)
                  /\ \A u \in Threads : ~Running(u) => t <= u

\* lines 100-105: the thread is created and started
ThreadStart ==
    /\ wpc = "thread_start"
    /\ \E t \in Threads : ~Running(t)
    /\ LET t == FreshThread
       IN  /\ pc' = [pc EXCEPT ![t] = "start"]
           /\ target_layout' = [target_layout EXCEPT ![t] = current_layout]
           /\ selected_text' = [selected_text EXCEPT ![t] = None]
           /\ previous_clipboard' = [previous_clipboard EXCEPT ![t] = None]
           /\ cap_previous_clipboard' = [cap_previous_clipboard EXCEPT ![t] = None]
           /\ marker' = [marker EXCEPT ![t] = None]
           /\ converted' = [converted EXCEPT ![t] = None]
           /\ polls' = [polls EXCEPT ![t] = 0]
           /\ raised' = [raised EXCEPT ![t] = FALSE]
           /\ events' = [events EXCEPT ![t] = <<>>]
           /\ clipAtStart' = [clipAtStart EXCEPT ![t] = clipboard]
    /\ runs' = runs + 1
    /\ wpc' = "poll_return"
    /\ UNCHANGED <<previous_layout, current_layout, pollTriggers, lastPoll,
                   fvars, clipboard, selection, pendingCopy>>
    /\ UNCHANGED auxvars

\* line 105 raising with no handler at line 63: the exception ends run_forever
ThreadStartFailsUncaught ==
    /\ wpc = "thread_start"
    /\ lastPoll' = [prev |-> previous_layout, cur |-> current_layout,
                    triggers |-> pollTriggers, ret |-> "raised"]
    /\ current_layout' = NoLayout
    /\ pollTriggers' = <<>>
    /\ wpc' = "stopped"
    /\ UNCHANGED <<previous_layout, fvars, tvars, evars>>
    /\ UNCHANGED auxvars

\* line 105: thread.start() raises RuntimeError (no thread can be created); the
\* exception leaves _poll_layout_once and is caught at line 63
ThreadStartFails ==
    /\ wpc = "thread_start"
    /\ lastPoll' = [prev |-> previous_layout, cur |-> current_layout,
                    triggers |-> pollTriggers, ret |-> "raised"]
    /\ current_layout' = NoLayout
    /\ pollTriggers' = <<>>
    /\ wpc' = "loop"
    /\ UNCHANGED <<previous_layout, fvars, tvars, evars>>
    /\ UNCHANGED auxvars

\* line 85 returning previous_layout: the transition stays pending
PollReturnKeepsTransition ==
    /\ wpc = "poll_return"
    /\ lastPoll' = [prev |-> previous_layout, cur |-> current_layout,
                    triggers |-> pollTriggers, ret |-> previous_layout]
    /\ current_layout' = NoLayout
    /\ pollTriggers' = <<>>
    /\ wpc' = "loop"
    /\ UNCHANGED <<previous_layout, fvars, tvars, evars>>
    /\ UNCHANGED auxvars

\* line 85 and the assignment of line 62
PollReturn ==
    /\ wpc = "poll_return"
    /\ lastPoll' = [prev |-> previous_layout, cur |-> current_layout,
                    triggers |-> pollTriggers,
                    ret |-> PollResult(previous_layout, current_layout)]
    /\ previous_layout' = PollResult(previous_layout, current_layout)
    /\ current_layout' = NoLayout
    /\ pollTriggers' = <<>>
    /\ wpc' = "loop"
    /\ UNCHANGED <<fvars, tvars, evars>>
    /\ UNCHANGED auxvars

\* --------------------------------------------------- conversion thread
Log(t, e) == events' = [events EXCEPT ![t] = Append(@, e)]

\* _capture_selected_text returns (text, snapshot) to line 117
CaptureReturns(t, text, snapshot) ==
    /\ polls' = [polls EXCEPT ![t] = 0]
    /\ selected_text' = [selected_text EXCEPT ![t] = text]
    /\ previous_clipboard' = [previous_clipboard EXCEPT ![t] = snapshot]
    /\ pc' = [pc EXCEPT ![t] = "check"]

\* an exception leaves the try block for the except clause of line 141; the
\* pipeline's locals keep the values they had
CaughtAtPipeline(t) ==
    /\ raised' = [raised EXCEPT ![t] = TRUE]
    /\ pc' = [pc EXCEPT ![t] = "finally"]

\* _read_selected_text_ax: the selected text, or None when the accessibility
\* API is unavailable, fails, or the selection is empty (lines 222-258)
ReadSelectedTextAx(axOk, sel) == IF axOk /\ sel # TextEmpty THEN sel ELSE None

\* line 165 as `return selected_via_ax, self._read_clipboard()`
CaptureAxSnapshotsClipboard(t) ==
    /\ pc[t] = "start"
    /\ \E sel \in Selections, axOk \in BOOLEAN :
         /\ selection' = sel
         /\ LET selected_via_ax == ReadSelectedTextAx(axOk, sel)
            IN  IF selected_via_ax # None /\ selected_via_ax # TextEmpty
                THEN /\ CaptureReturns(t, selected_via_ax, clipboard)
                     /\ Log(t, "ax_read")
                ELSE /\ pc' = [pc EXCEPT ![t] = "cap_read"]
                     /\ UNCHANGED <<selected_text, previous_clipboard, events,
                                    polls>>
    /\ UNCHANGED <<wvars, fvars, target_layout, cap_previous_clipboard, marker,
                   converted, raised, clipAtStart, clipboard, pendingCopy, runs>>
    /\ UNCHANGED auxvars

\* lines 116-117 and 157-165: the settle delay, then the accessibility read
CaptureAx(t) ==
    /\ pc[t] = "start"
    /\ \E sel \in Selections, axOk \in BOOLEAN :
         /\ selection' = sel
         /\ LET selected_via_ax == ReadSelectedTextAx(axOk, sel)
            IN  IF selected_via_ax # None /\ selected_via_ax # TextEmpty
                THEN /\ CaptureReturns(t, selected_via_ax, None)
                     /\ Log(t, "ax_read")
                ELSE /\ pc' = [pc EXCEPT ![t] = "cap_read"]
                     /\ UNCHANGED <<selected_text, previous_clipboard, events,
                                    polls>>
    /\ UNCHANGED <<wvars, fvars, target_layout, cap_previous_clipboard, marker,
                   converted, raised, clipAtStart, clipboard, pendingCopy, runs>>
    /\ UNCHANGED auxvars

\* lines 167-168: the snapshot (None when pbpaste fails) and the fresh marker
CaptureReadClipboard(t) ==
    /\ pc[t] = "cap_read"
    /\ \E readOk \in BOOLEAN :
         cap_previous_clipboard' =
            [cap_previous_clipboard EXCEPT ![t] = IF readOk THEN clipboard ELSE None]
    /\ marker' = [marker EXCEPT ![t] = MarkerOf(runs)]
    /\ pc' = [pc EXCEPT ![t] = "cap_write_marker"]
    /\ UNCHANGED <<wvars, fvars, target_layout, selected_text, previous_clipboard,
                   converted, polls, raised, events, clipAtStart, evars>>
    /\ UNCHANGED auxvars

\* lines 176-182 without the test of line 176: the copy keystroke follows a
\* failed marker write
CaptureWriteMarkerUnchecked(t) ==
    /\ pc[t] = "cap_write_marker"
    /\ \E writeOk \in BOOLEAN :
         /\ IF writeOk
            THEN clipboard' = marker[t] /\ Log(t, "write_marker")
            ELSE UNCHANGED <<clipboard, events>>
         /\ pc' = [pc EXCEPT ![t] = "cap_copy"]
         /\ UNCHANGED <<selected_text, previous_clipboard, polls>>
    /\ UNCHANGED <<wvars, fvars, target_layout, cap_previous_clipboard, marker,
                   converted, raised, clipAtStart, selection, pendingCopy, runs>>
    /\ UNCHANGED auxvars

\* lines 176-179: the marker is written, or the capture aborts
CaptureWriteMarker(t) ==
    /\ pc[t] = "cap_write_marker"
    /\ \E writeOk \in BOOLEAN :
         IF writeOk
         THEN /\ clipboard' = marker[t]
              /\ Log(t, "write_marker")
              /\ pc' = [pc EXCEPT ![t] = "cap_copy"]
              /\ UNCHANGED <<selected_text, previous_clipboard, polls>>
         ELSE /\ CaptureReturns(t, None, cap_previous_clipboard[t])
              /\ UNCHANGED <<clipboard, events>>
    /\ UNCHANGED <<wvars, fvars, target_layout, cap_previous_clipboard, marker,
                   converted, raised, clipAtStart, selection, pendingCopy, runs>>
    /\ UNCHANGED auxvars

\* lines 181-182 and 382: the settle delay and the primary copy keystroke, which
\* pynput may refuse with an exception
CaptureSendCopy(t) ==
    /\ pc[t] = "cap_copy"
    /\ \E sent \in BOOLEAN :
         IF sent
         THEN /\ Log(t, "copy_key")
              /\ pendingCopy' = TRUE
              /\ polls' = [polls EXCEPT ![t] = 0]
              /\ pc' = [pc EXCEPT ![t] = "cap_wait1"]
              /\ UNCHANGED raised
         ELSE /\ CaughtAtPipeline(t)
              /\ UNCHANGED <<events, pendingCopy, polls>>
    /\ UNCHANGED <<wvars, fvars, target_layout, selected_text, previous_clipboard,
                   cap_previous_clipboard, marker, converted, clipAtStart,
                   clipboard, selection, runs>>
    /\ UNCHANGED auxvars

\* lines 409-412 with only the marker skipped: an unreadable poll is returned
KeepsPollingMarkerOnly(copied, mk) == copied = mk

\* lines 409-412: the poll is skipped when the read failed or gave the marker
KeepsPolling(copied, mk) == copied = None \/ copied = mk

\* _wait_for_clipboard_change, lines 405-420: one poll before the deadline
WaitPoll(t) ==
    /\ pc[t] \in {"cap_wait1", "cap_wait2"}
    /\ polls[t] < MaxPolls
    /\ \E readOk \in BOOLEAN :
         LET copied == IF readOk THEN clipboard ELSE None
         IN  IF KeepsPolling(copied, marker[t])
             THEN /\ polls' = [polls EXCEPT ![t] = @ + 1]
                  /\ UNCHANGED <<pc, selected_text, previous_clipboard>>
             ELSE CaptureReturns(t, copied, cap_previous_clipboard[t])
    /\ UNCHANGED <<wvars, fvars, target_layout, cap_previous_clipboard, marker,
                   converted, raised, events, clipAtStart, evars>>
    /\ UNCHANGED auxvars

\* _wait_for_clipboard_change, lines 405 and 429: the deadline has passed
WaitTimeout(t) ==
    /\ pc[t] \in {"cap_wait1", "cap_wait2"}
    /\ IF pc[t] = "cap_wait1"
       THEN /\ pc' = [pc EXCEPT ![t] = "cap_fallback"]
            /\ polls' = [polls EXCEPT ![t] = 0]
            /\ UNCHANGED <<selected_text, previous_clipboard>>
       ELSE CaptureReturns(t, None, cap_previous_clipboard[t])
    /\ UNCHANGED <<wvars, fvars, target_layout, cap_previous_clipboard, marker,
                   converted, raised, events, clipAtStart, evars>>
    /\ UNCHANGED auxvars

\* lines 391-396: the Quartz copy keystroke; when it cannot be sent the capture
\* gives up, otherwise a second wait starts
CaptureFallbackKey(t) ==
    /\ pc[t] = "cap_fallback"
    /\ \E sent \in BOOLEAN :
         IF sent
         THEN /\ Log(t, "ll_copy_key")
              /\ pendingCopy' = TRUE
              /\ polls' = [polls EXCEPT ![t] = 0]
              /\ pc' = [pc EXCEPT ![t] = "cap_wait2"]
              /\ UNCHANGED <<selected_text, previous_clipboard>>
         ELSE /\ CaptureReturns(t, None, cap_previous_clipboard[t])
              /\ UNCHANGED <<events, pendingCopy>>
    /\ UNCHANGED <<wvars, fvars, target_layout, cap_previous_clipboard, marker,
                   converted, raised, clipAtStart, clipboard, selection, runs>>
    /\ UNCHANGED auxvars

\* line 118: `not selected_text`
NoSelection(text) == text = None \/ text = TextEmpty

\* lines 128-133 without the test of line 129: replace is called with whatever
\* the mapper returned
TransformAlwaysReplaces(t) ==
    /\ pc[t] = "check"
    /\ IF NoSelection(selected_text[t])
       THEN /\ pc' = [pc EXCEPT ![t] = "finally"]
            /\ UNCHANGED <<converted, events>>
       ELSE /\ converted' = [converted EXCEPT
                   ![t] = switch_layout(selected_text[t], target_layout[t])]
            /\ pc' = [pc EXCEPT ![t] = "replace_ax"]
            /\ Log(t, "replace_call")
    /\ UNCHANGED <<wvars, fvars, target_layout, selected_text, previous_clipboard,
                   cap_previous_clipboard, marker, polls, raised, clipAtStart,
                   evars>>
    /\ UNCHANGED auxvars

\* lines 128-133 with replace given the captured text instead of the converted
TransformReplacesWithCaptured(t) ==
    /\ pc[t] = "check"
    /\ IF NoSelection(selected_text[t])
       THEN /\ pc' = [pc EXCEPT ![t] = "finally"]
            /\ UNCHANGED <<converted, events>>
       ELSE /\ converted' = [converted EXCEPT ![t] = selected_text[t]]
            /\ IF switch_layout(selected_text[t], target_layout[t])
                    = selected_text[t]
               THEN /\ pc' = [pc EXCEPT ![t] = "finally"]
                    /\ UNCHANGED events
               ELSE /\ pc' = [pc EXCEPT ![t] = "replace_ax"]
                    /\ Log(t, "replace_call")
    /\ UNCHANGED <<wvars, fvars, target_layout, selected_text, previous_clipboard,
                   cap_previous_clipboard, marker, polls, raised, clipAtStart,
                   evars>>
    /\ UNCHANGED auxvars

\* lines 118-133: no selection, ValueError from switch_layout (caught at line
\* 141), unchanged text, or the call of replace
Transform(t) ==
    /\ pc[t] = "check"
    /\ IF NoSelection(selected_text[t])
       THEN /\ pc' = [pc EXCEPT ![t] = "finally"]
            /\ UNCHANGED <<converted, events, raised>>
       ELSE LET text == switch_layout(selected_text[t], target_layout[t])
            IN  IF text = ValueError
                THEN /\ CaughtAtPipeline(t)
                     /\ Log(t, "transform_raised")
                     /\ UNCHANGED converted
                ELSE /\ converted' = [converted EXCEPT ![t] = text]
                     /\ UNCHANGED raised
                     /\ IF text = selected_text[t]
                        THEN /\ pc' = [pc EXCEPT ![t] = "finally"]
                             /\ UNCHANGED events
                        ELSE /\ pc' = [pc EXCEPT ![t] = "replace_ax"]
                             /\ Log(t, "replace_call")
    /\ UNCHANGED <<wvars, fvars, target_layout, selected_text, previous_clipboard,
                   cap_previous_clipboard, marker, polls, clipAtStart,
                   evars>>
    /\ UNCHANGED auxvars

\* lines 197-201 without the return of line 201: the clipboard-mediated
\* replace follows a successful accessibility write
ReplaceAxThenClipboard(t) ==
    /\ pc[t] = "replace_ax"
    /\ \E axOk \in BOOLEAN :
         IF axOk
         THEN /\ selection' = converted[t]
              /\ Log(t, "ax_write")
              /\ pc' = [pc EXCEPT ![t] = "rep_write"]
         ELSE /\ pc' = [pc EXCEPT ![t] = "rep_write"]
              /\ UNCHANGED <<selection, events>>
    /\ UNCHANGED <<wvars, fvars, tlocals, clipboard, pendingCopy, runs>>
    /\ UNCHANGED auxvars

\* lines 197-201: the accessibility write
ReplaceAx(t) ==
    /\ pc[t] = "replace_ax"
    /\ \E axOk \in BOOLEAN :
         IF axOk
         THEN /\ selection' = converted[t]
              /\ Log(t, "ax_write")
              /\ pc' = [pc EXCEPT ![t] = "finally"]
         ELSE /\ pc' = [pc EXCEPT ![t] = "rep_write"]
              /\ UNCHANGED <<selection, events>>
    /\ UNCHANGED <<wvars, fvars, tlocals, clipboard, pendingCopy, runs>>
    /\ UNCHANGED auxvars

\* lines 209-215 without the test of line 209: the paste keystroke follows a
\* failed write
ReplaceWriteClipboardUnchecked(t) ==
    /\ pc[t] = "rep_write"
    /\ \E writeOk \in BOOLEAN :
         IF writeOk
         THEN /\ clipboard' = converted[t]
              /\ Log(t, "write_text")
              /\ pc' = [pc EXCEPT ![t] = "rep_paste"]
         ELSE /\ pc' = [pc EXCEPT ![t] = "rep_paste"]
              /\ Log(t, "write_text_failed")
              /\ UNCHANGED clipboard
    /\ UNCHANGED <<wvars, fvars, tlocals, selection, pendingCopy, runs>>
    /\ UNCHANGED auxvars

\* lines 209-212: the transformed text goes to the clipboard, or the write
\* fails and replace returns False
ReplaceWriteClipboard(t) ==
    /\ pc[t] = "rep_write"
    /\ \E writeOk \in BOOLEAN :
         IF writeOk
         THEN /\ clipboard' = converted[t]
              /\ Log(t, "write_text")
              /\ pc' = [pc EXCEPT ![t] = "rep_paste"]
         ELSE /\ pc' = [pc EXCEPT ![t] = "finally"]
              /\ Log(t, "write_text_failed")
              /\ UNCHANGED clipboard
    /\ UNCHANGED <<wvars, fvars, tlocals, selection, pendingCopy, runs>>
    /\ UNCHANGED auxvars

\* line 215 followed by a Quartz paste keystroke, as the copy of lines 382-396
\* is: two paste keystrokes in one run
ReplacePasteBothInjectors(t) ==
    /\ pc[t] = "rep_paste"
    /\ \E sent \in BOOLEAN :
         IF sent
         THEN /\ events' = [events EXCEPT
                     ![t] = Append(Append(@, "paste_key"), "paste_key")]
              /\ selection' = clipboard
              /\ pc' = [pc EXCEPT ![t] = "finally"]
              /\ UNCHANGED raised
         ELSE /\ CaughtAtPipeline(t)
              /\ UNCHANGED <<events, selection>>
    /\ UNCHANGED <<wvars, fvars, target_layout, selected_text, previous_clipboard,
                   cap_previous_clipboard, marker, converted, polls, clipAtStart,
                   clipboard, pendingCopy, runs>>
    /\ UNCHANGED auxvars

\* lines 214-220: the paste keystroke (pynput may raise) and the restore delay;
\* the focused application pastes the clipboard over the selection
ReplacePaste(t) ==
    /\ pc[t] = "rep_paste"
    /\ \E sent \in BOOLEAN :
         IF sent
         THEN /\ Log(t, "paste_key")
              /\ selection' = clipboard
              /\ pc' = [pc EXCEPT ![t] = "finally"]
              /\ UNCHANGED raised
         ELSE /\ CaughtAtPipeline(t)
              /\ UNCHANGED <<events, selection>>
    /\ UNCHANGED <<wvars, fvars, target_layout, selected_text, previous_clipboard,
                   cap_previous_clipboard, marker, converted, polls, clipAtStart,
                   clipboard, pendingCopy, runs>>
    /\ UNCHANGED auxvars

\* line 144 as `if previous_clipboard:` (an empty snapshot is not restored)
RestoreNeededIfTruthy(snapshot) == snapshot # None /\ snapshot # TextEmpty

\* line 144: whether the finally clause writes the snapshot back
RestoreNeeded(snapshot) == snapshot # None

\* lines 143-151 with the write-back done only on the path that called replace
FinallyRestoreAfterReplaceOnly(t) ==
    /\ pc[t] = "finally"
    /\ IF RestoreNeeded(previous_clipboard[t])
          /\ \E i \in 1..Len(events[t]) : events[t][i] = "replace_call"
       THEN \E writeOk \in BOOLEAN :
              IF writeOk
              THEN /\ clipboard' = previous_clipboard[t]
                   /\ Log(t, "restore")
              ELSE /\ Log(t, "restore_failed")
                   /\ UNCHANGED clipboard
       ELSE UNCHANGED <<clipboard, events>>
    /\ pc' = [pc EXCEPT ![t] = "clear"]
    /\ UNCHANGED <<wvars, fvars, tlocals, selection, pendingCopy, runs>>
    /\ UNCHANGED auxvars

\* lines 143-151: the finally clause writes the snapshot back (pbcopy may fail)
Finally(t) ==
    /\ pc[t] = "finally"
    /\ IF RestoreNeeded(previous_clipboard[t])
       THEN \E writeOk \in BOOLEAN :
              IF writeOk
              THEN /\ clipboard' = previous_clipboard[t]
                   /\ Log(t, "restore")
              ELSE /\ Log(t, "restore_failed")
                   /\ UNCHANGED clipboard
       ELSE UNCHANGED <<clipboard, events>>
    /\ pc' = [pc EXCEPT ![t] = "clear"]
    /\ UNCHANGED <<wvars, fvars, tlocals, selection, pendingCopy, runs>>
    /\ UNCHANGED auxvars

\* line 152 moved into the try block: an exception skips the clear
ReleaseGuardUnlessRaised(t) ==
    /\ pc[t] = "clear"
    /\ _conversion_active' = IF raised[t] THEN _conversion_active ELSE FALSE
    /\ pc' = [pc EXCEPT ![t] = "done"]
    /\ pendingCopy' = FALSE
    /\ selection' = TextEmpty
    /\ UNCHANGED <<wvars, _stop_event, _lock, tlocals, events, clipboard, runs>>
    /\ UNCHANGED auxvars

\* lines 152-154: self._conversion_active.clear(), the closing debug log (which
\* touches no state) and the end of the thread.  What the focused application
\* holds then is of no use to the run: the next run reads the selection afresh,
\* and a copy served later is another application's write.
ReleaseGuard(t) ==
    /\ pc[t] = "clear"
    /\ _conversion_active' = FALSE
    /\ pc' = [pc EXCEPT ![t] = "done"]
    /\ pendingCopy' = FALSE
    /\ selection' = TextEmpty
    /\ UNCHANGED <<wvars, _stop_event, _lock, tlocals, events, clipboard, runs>>
    /\ UNCHANGED auxvars

\* ------------------------------------------------------- environment
\* the focused application serves a copy keystroke: the selection goes to
\* the clipboard
AppCopy ==
    /\ pendingCopy
    /\ clipboard' = selection
    /\ pendingCopy' = FALSE
    /\ UNCHANGED <<wvars, fvars, tvars, selection, runs>>
    /\ UNCHANGED auxvars

ConversionStep(t) ==
    \/ CaptureAx(t)
    \/ CaptureReadClipboard(t)
    \/ CaptureWriteMarker(t)
    \/ CaptureSendCopy(t)
    \/ WaitPoll(t)
    \/ WaitTimeout(t)
    \/ CaptureFallbackKey(t)
    \/ Transform(t)
    \/ ReplaceAx(t)
    \/ ReplaceWriteClipboard(t)
    \/ ReplacePaste(t)
    \/ Finally(t)
    \/ ReleaseGuard(t)

WatcherStep ==
    \/ RunForeverStart
    \/ WatcherLoopTest
    \/ PollLayoutOnce
    \/ ScheduleAcquireLock
    \/ ScheduleCheckAndSet
    \/ ThreadStart
    \/ ThreadStartFails
    \/ PollReturn

ConversionSteps == \E t \in Threads : ConversionStep(t)

Next ==
    \/ WatcherStep
    \/ ConversionSteps
    \/ Stop
    \/ AppCopy

Spec == Init /\ [][Next]_vars

\* a started conversion thread is scheduled until it ends; the user, stop() and
\* the focused application are not obliged to act
FairSpec == Spec /\ WF_vars(ConversionSteps)

\* the watcher thread is scheduled too: its sleep of line 60 ends, and nothing
\* it waits for is held by another thread for ever
WatcherFairSpec == Spec /\ WF_vars(WatcherStep)

\* ---------------------------------------------------- the process ends
\* Conversion threads are created with daemon=True (line 103) and nothing joins
\* them: when the process exits, a thread that has not ended is cut short
\* where it stands ("killed"); the watcher's position becomes "exited".
KillDaemonThreads ==
    pc' = [t \in Threads |-> IF Running(t) THEN "killed" ELSE pc[t]]

\* __main__.py lines 104-109: SIGINT or SIGTERM arrives while the main thread
\* is in run_forever; the handler calls sys.exit(0), SystemExit passes the
\* `except Exception` of line 63 and the interpreter exits
SignalExit ==
    /\ wpc # "exited"
    /\ wpc' = "exited"
    /\ KillDaemonThreads
    /\ UNCHANGED <<previous_layout, current_layout, pollTriggers, lastPoll,
                   fvars, tlocals, events, evars>>
    /\ UNCHANGED auxvars

\* macos_app.py lines 111-113 and 89-90: after fixer.stop(),
\* NSApp.terminate_(None) ends the process, the watcher thread (a daemon too,
\* line 158) wherever it is
AppTerminate ==
    /\ _stop_event
    /\ wpc # "exited"
    /\ wpc' = "exited"
    /\ KillDaemonThreads
    /\ UNCHANGED <<previous_layout, current_layout, pollTriggers, lastPoll,
                   fvars, tlocals, events, evars>>
    /\ UNCHANGED auxvars

ExitNext == Next \/ SignalExit \/ AppTerminate

ExitSpec == Init /\ [][ExitNext]_vars

\* ------------------------------------------ the accessibility permission
\* HIServices is None (import failed, line 22), or lacks
\* AXIsProcessTrustedWithOptions (line 283), or has it
AxApis == {"none", "noprompt", "full"}

\* run_forever is about to make the check of line 57
AxInit ==
    /\ PipelineInit
    /\ clipboard = TextEmpty
    /\ WaitIdle
    /\ MapperIdle
    /\ AutostartIdle
    /\ CopyIdle
    /\ ax_pc = "startup"
    /\ ax_api \in AxApis
    /\ ax_trusted \in BOOLEAN
    /\ _ax_warning_logged = FALSE
    /\ ax_prompts = 0
    /\ ax_reads = 0
    /\ ax_err = "none"

\* _check_ax_permission(prompt), lines 260-291: nothing without HIServices or
\* when trusted; otherwise the warning is logged once (276-281) and, with
\* prompt set and the call available, AXIsProcessTrustedWithOptions is called
\* (283-290)
CheckAxPermission(prompt) ==
    IF ax_api = "none" \/ ax_trusted
    THEN UNCHANGED <<_ax_warning_logged, ax_prompts>>
    ELSE /\ _ax_warning_logged' = TRUE
         /\ ax_prompts' = IF prompt /\ ax_api = "full"
                          THEN ax_prompts + 1 ELSE ax_prompts

\* run_forever, line 57
AxStartupCheck ==
    /\ ax_pc = "startup"
    /\ ax_pc' = "running"
    /\ CheckAxPermission(TRUE)
    /\ UNCHANGED <<ax_api, ax_trusted, ax_reads, ax_err, pipevars, waitvars,
                   mapvars, autovars, copyvars>>

\* what the focused-element query of lines 226-230 may answer:
\* kAXErrorAPIDisabled while the permission is missing, never once it is
\* granted
AxErrors == IF ax_trusted THEN {"Success", "Failure"}
            ELSE {"APIDisabled", "Failure"}

\* _read_selected_text_ax, lines 222-237, called by each conversion (line 157)
AxReadSelectedText ==
    /\ ax_pc = "running"
    /\ ax_reads < MaxAxReads
    /\ ax_reads' = ax_reads + 1
    /\ IF ax_api = "none"
       THEN UNCHANGED <<ax_err, _ax_warning_logged, ax_prompts>>
       ELSE \E err \in AxErrors :
              /\ ax_err' = err
              /\ IF err = "APIDisabled"
                 THEN CheckAxPermission(TRUE)
                 ELSE UNCHANGED <<_ax_warning_logged, ax_prompts>>
    /\ UNCHANGED <<ax_pc, ax_api, ax_trusted, pipevars, waitvars, mapvars, autovars, copyvars>>

\* the user enables the application in System Settings
UserGrantsPermission ==
    /\ ax_pc = "running"
    /\ ax_api # "none"
    /\ ~ax_trusted
    /\ ax_trusted' = TRUE
    /\ UNCHANGED <<ax_pc, ax_api, _ax_warning_logged, ax_prompts, ax_reads,
                   ax_err, pipevars, waitvars, mapvars, autovars, copyvars>>

AxNext == AxStartupCheck \/ AxReadSelectedText \/ UserGrantsPermission

AxSpec == AxInit /\ [][AxNext]_vars

\* ------------------------------------------------- LaunchAgentAutostart
\* the plist may exist beforehand (tests/test_autostart.py lines 48-49) and the
\* agent may be loaded in launchd
AutostartInit ==
    /\ PipelineInit
    /\ clipboard = TextEmpty
    /\ WaitIdle
    /\ MapperIdle
    /\ AxIdle
    /\ CopyIdle
    /\ plist_exists \in BOOLEAN
    /\ agent_loaded \in BOOLEAN
    /\ launchctl_calls = <<>>
    /\ as_ops = <<>>
    /\ as_history = <<>>
    /\ as_raised = FALSE

\* _run_launchctl(["bootout", ...]) / (["bootstrap", ...]), lines 75-92: the
\* outcome is logged at most; ok tells whether launchctl did its work
AfterBootout(loaded, ok) == IF ok THEN FALSE ELSE loaded
AfterBootstrap(loaded, ok) == IF ok THEN TRUE ELSE loaded

\* enable() with is_enabled() asked after the plist is written: the agent is
\* always booted out first
EnableChecksAfterWrite ==
    /\ Len(as_history) < MaxAutostartCalls
    /\ plist_exists' = TRUE
    /\ \E okOut, okIn \in BOOLEAN :
         /\ launchctl_calls' = <<"bootout", "bootstrap">>
         /\ as_ops' = <<"write_plist", "bootout", "bootstrap">>
         /\ agent_loaded' = AfterBootstrap(AfterBootout(agent_loaded, okOut),
                                           okIn)
    /\ as_history' = Append(as_history, "enable")
    /\ as_raised' = FALSE
    /\ UNCHANGED <<pipevars, waitvars, mapvars, axvars, copyvars>>

\* enable(), lines 35-43
Enable ==
    /\ Len(as_history) < MaxAutostartCalls
    /\ plist_exists' = TRUE
    /\ \E okOut, okIn \in BOOLEAN :
         IF plist_exists
         THEN /\ launchctl_calls' = <<"bootout", "bootstrap">>
              /\ as_ops' = <<"write_plist", "bootout", "bootstrap">>
              /\ agent_loaded' = AfterBootstrap(AfterBootout(agent_loaded, okOut),
                                                okIn)
         ELSE /\ launchctl_calls' = <<"bootstrap">>
              /\ as_ops' = <<"write_plist", "bootstrap">>
              /\ agent_loaded' = AfterBootstrap(agent_loaded, okIn)
    /\ as_history' = Append(as_history, "enable")
    /\ as_raised' = FALSE
    /\ UNCHANGED <<pipevars, waitvars, mapvars, axvars, copyvars>>

\* disable() that gives up when launchctl bootout fails
DisableUnlessBootoutFails ==
    /\ Len(as_history) < MaxAutostartCalls
    /\ \E okOut \in BOOLEAN :
         IF plist_exists
         THEN /\ launchctl_calls' = <<"bootout">>
              /\ as_ops' = IF okOut THEN <<"bootout", "unlink">>
                                    ELSE <<"bootout">>
              /\ agent_loaded' = AfterBootout(agent_loaded, okOut)
              /\ plist_exists' = ~okOut
         ELSE /\ launchctl_calls' = <<>>
              /\ as_ops' = <<"unlink">>
              /\ UNCHANGED <<agent_loaded, plist_exists>>
    /\ as_history' = Append(as_history, "disable")
    /\ as_raised' = FALSE
    /\ UNCHANGED <<pipevars, waitvars, mapvars, axvars, copyvars>>

\* disable(), lines 45-51: bootout only when the plist exists; unlink, with
\* FileNotFoundError swallowed
Disable ==
    /\ Len(as_history) < MaxAutostartCalls
    /\ \E okOut \in BOOLEAN :
         IF plist_exists
         THEN /\ launchctl_calls' = <<"bootout">>
              /\ as_ops' = <<"bootout", "unlink">>
              /\ agent_loaded' = AfterBootout(agent_loaded, okOut)
         ELSE /\ launchctl_calls' = <<>>
              /\ as_ops' = <<"unlink">>
              /\ UNCHANGED agent_loaded
    /\ plist_exists' = FALSE
    /\ as_history' = Append(as_history, "disable")
    /\ as_raised' = FALSE
    /\ UNCHANGED <<pipevars, waitvars, mapvars, axvars, copyvars>>

AutostartNext == Enable \/ Disable

AutostartSpec == AutostartInit /\ [][AutostartNext]_vars

\* ------------------------------------- _wait_for_clipboard_change alone
\* the marker of the call, and what a read may return: nothing, the marker,
\* "gh" or the empty text
WaitMarker == MarkerOf(1)
ReadValues == {None, WaitMarker, TextGh, TextEmpty}
ReadSeries == UNION {[1..k -> ReadValues] : k \in 0..MaxReads}

\* line 402: the call starts; the series of reads up to the deadline is given
WaitInit ==
    /\ PipelineInit
    /\ clipboard = TextEmpty
    /\ MapperIdle
    /\ AxIdle
    /\ AutostartIdle
    /\ CopyIdle
    /\ w_reads \in ReadSeries
    /\ w_pos = 0
    /\ w_pc = "polling"
    /\ w_ret = None

\* lines 405-420: one iteration of the loop
WaitIteration ==
    /\ w_pc = "polling"
    /\ w_pos < Len(w_reads)
    /\ w_pos' = w_pos + 1
    /\ LET copied == w_reads[w_pos + 1]
       IN  IF KeepsPolling(copied, WaitMarker)
           THEN UNCHANGED <<w_pc, w_ret>>
           ELSE /\ w_pc' = "returned"
                /\ w_ret' = copied
    /\ UNCHANGED <<w_reads, pipevars, mapvars, axvars, autovars, copyvars>>

\* lines 405 and 429: the deadline has passed; None is returned
WaitDeadline ==
    /\ w_pc = "polling"
    /\ w_pos = Len(w_reads)
    /\ w_pc' = "returned"
    /\ w_ret' = None
    /\ UNCHANGED <<w_reads, w_pos, pipevars, mapvars, axvars, autovars, copyvars>>

WaitNext == WaitIteration \/ WaitDeadline

WaitSpec == WaitInit /\ [][WaitNext]_vars

\* --------------------------- _copy_selected_text_to_clipboard on a clock
\* The clock counts poll intervals (selection_copy_poll_interval_seconds): each
\* iteration of the wait loop sleeps one.  selection_copy_wait_timeout_seconds
\* is TimeoutTicks intervals.
CopyInit ==
    /\ PipelineInit
    /\ clipboard = TextEmpty
    /\ WaitIdle
    /\ MapperIdle
    /\ AxIdle
    /\ AutostartIdle
    /\ cp_pc = "primary"
    /\ cp_clock = 0
    /\ cp_deadline = 0
    /\ cp_first_deadline = 0
    /\ cp_keys = <<>>
    /\ cp_sel \in Selections
    /\ cp_clip = WaitMarker
    /\ cp_ret = None

\* line 382, then line 402 of the first wait; pynput may raise
CopySendPrimary ==
    /\ cp_pc = "primary"
    /\ \E sent \in BOOLEAN :
         IF sent
         THEN /\ cp_keys' = Append(cp_keys, "copy_key")
              /\ cp_deadline' = cp_clock + TimeoutTicks
              /\ cp_first_deadline' = cp_clock + TimeoutTicks
              /\ cp_pc' = "wait1"
         ELSE /\ cp_pc' = "raised"
              /\ UNCHANGED <<cp_keys, cp_deadline, cp_first_deadline>>
    /\ UNCHANGED <<cp_clock, cp_sel, cp_clip, cp_ret, pipevars, waitvars, mapvars,
                   axvars, autovars>>

\* lines 405-420: the deadline has not passed; sleep one interval, read
CopyWaitPoll ==
    /\ cp_pc \in {"wait1", "wait2"}
    /\ cp_clock < cp_deadline
    /\ cp_clock' = cp_clock + 1
    /\ \E readOk \in BOOLEAN :
         LET copied == IF readOk THEN cp_clip ELSE None
         IN  IF KeepsPolling(copied, WaitMarker)
             THEN UNCHANGED <<cp_pc, cp_ret>>
             ELSE cp_pc' = "returned" /\ cp_ret' = copied
    /\ UNCHANGED <<cp_deadline, cp_first_deadline, cp_keys, cp_sel, cp_clip,
                   pipevars, waitvars, mapvars, axvars, autovars>>

\* lines 405 and 429: the deadline has passed; the first wait gives way to the
\* fallback (line 391), the second returns None (line 399)
CopyWaitDeadline ==
    /\ cp_pc \in {"wait1", "wait2"}
    /\ cp_clock >= cp_deadline
    /\ IF cp_pc = "wait1"
       THEN cp_pc' = "fallback" /\ UNCHANGED cp_ret
       ELSE cp_pc' = "returned" /\ cp_ret' = None
    /\ UNCHANGED <<cp_clock, cp_deadline, cp_first_deadline, cp_keys, cp_sel,
                   cp_clip, pipevars, waitvars, mapvars, axvars, autovars>>

\* lines 391-396: the Quartz keystroke, then line 402 of the second wait; None
\* when Quartz cannot send it
CopyFallback ==
    /\ cp_pc = "fallback"
    /\ \E sent \in BOOLEAN :
         IF sent
         THEN /\ cp_keys' = Append(cp_keys, "ll_copy_key")
              /\ cp_deadline' = cp_clock + TimeoutTicks
              /\ cp_pc' = "wait2"
              /\ UNCHANGED cp_ret
         ELSE /\ cp_pc' = "returned"
              /\ cp_ret' = None
              /\ UNCHANGED <<cp_keys, cp_deadline>>
    /\ UNCHANGED <<cp_clock, cp_first_deadline, cp_sel, cp_clip, pipevars,
                   waitvars, mapvars, axvars, autovars>>

\* the focused application serves a copy keystroke it has received
CopyAppServes ==
    /\ cp_pc \in {"wait1", "fallback", "wait2"}
    /\ cp_clip = WaitMarker
    /\ cp_sel # TextEmpty
    /\ cp_clip' = cp_sel
    /\ UNCHANGED <<cp_pc, cp_clock, cp_deadline, cp_first_deadline, cp_keys,
                   cp_sel, cp_ret, pipevars, waitvars, mapvars, axvars, autovars>>

CopyNext ==
    \/ CopySendPrimary
    \/ CopyWaitPoll
    \/ CopyWaitDeadline
    \/ CopyFallback
    \/ CopyAppServes

CopySpec == CopyInit /\ [][CopyNext]_vars

\* ------------------------------------------------------ switch_layout alone
\* g G / . б Б 1: mapped letters of both tables in both cases, the two
\* characters that are a key of one table and a value of the other, and an
\* unmapped character
SampleChars == {103, 71, 47, 46, 1073, 1041, 49}
\* "Ghbdtn" and "руддщ" (tests/test_detector.py)
TextGhbdtn == <<71, 104, 98, 100, 116, 110>>
TextRuddsch == <<1088, 1091, 1076, 1076, 1097>>
\* every one-character text of Universe, every text of up to MaxWordLen
\* sample characters, and the words of the tests
MapperWords ==
    {<<c>> : c \in Universe}
        \cup UNION {[1..k -> SampleChars] : k \in 0..MaxWordLen}
        \cup {TextGhbdtn, TextRuddsch}
\* values given as to_layout: the two layouts, "DE" (tests), "rus" and None
LayoutArgs == Layouts \cup {"DE", "rus", NoLayout}

\* line 48: the table used for a target layout
MappingFor(to_layout) == IF to_layout = "RUS" THEN EN_TO_RU ELSE RU_TO_EN

MapperInit ==
    /\ PipelineInit
    /\ clipboard = TextEmpty
    /\ WaitIdle
    /\ AxIdle
    /\ AutostartIdle
    /\ CopyIdle
    /\ m_word \in MapperWords
    /\ m_layout \in LayoutArgs
    /\ m_pc = "input"
    /\ m_out = None
    /\ m_layout2 = NoLayout
    /\ m_back = None

\* switch_layout(m_word, m_layout)
MapperSwitch ==
    /\ m_pc = "input"
    /\ m_out' = switch_layout(m_word, m_layout)
    /\ m_pc' = "switched"
    /\ UNCHANGED <<m_word, m_layout, m_layout2, m_back, pipevars, waitvars, axvars,
                   autovars, copyvars>>

\* switch_layout(m_out, l2) on the text the first call returned
MapperSwitchBack ==
    /\ m_pc = "switched"
    /\ m_out # ValueError
    /\ \E l2 \in Layouts :
         /\ m_layout2' = l2
         /\ m_back' = switch_layout(m_out, l2)
    /\ m_pc' = "back"
    /\ UNCHANGED <<m_word, m_layout, m_out, pipevars, waitvars, axvars, autovars, copyvars>>

MapperNext == MapperSwitch \/ MapperSwitchBack

MapperSpec == MapperInit /\ [][MapperNext]_vars

\* ------------------------------------------------------------- claims
Finished(t) == pc[t] \in {"clear", "done"}
Has(t, e) == \E i \in 1..Len(events[t]) : events[t][i] = e
CountOf(t, es) == Cardinality({i \in 1..Len(events[t]) : events[t][i] \in es})
RestoreEvents == {"restore", "restore_failed"}
ClipboardWrites ==
    {"write_marker", "write_text", "write_text_failed", "restore", "restore_failed"}
\* the last write to the clipboard a run has issued ("none" when it issued none)
LastClipboardWrite(t) ==
    LET idx == {i \in 1..Len(events[t]) : events[t][i] \in ClipboardWrites}
    IN  IF idx = {} THEN "none"
        ELSE events[t][CHOOSE i \in idx : \A j \in idx : j <= i]

\* C1: at every instant at most one pipeline run is executing, every executing
\* run holds the guard, and the watcher tests and sets the guard only while it
\* holds the lock.
C1_AtMostOneConversion ==
    /\ Cardinality({t \in Threads : Running(t)}) <= 1
    /\ \A t \in Threads : Running(t) => _conversion_active
    /\ wpc = "sched_check" => _lock = "watcher"

\* a second trigger reaches the guard while a conversion is executing
C1_Witness ==
    /\ wpc = "sched_check"
    /\ \E t \in Threads : Running(t) /\ pc[t] = "cap_wait1"

\* C2: a trigger that finds the guard held is dropped: the call returns at once
\* with the guard still held, starts no thread, and leaves every local of the
\* running conversion (target layout, captured text, snapshot) and the clipboard
\* as they were; the return of the poll that follows starts nothing either.
C2_TriggerDropped ==
    [][ /\ (wpc = "sched_check" /\ _conversion_active /\ wpc' # wpc)
            => /\ wpc' = "poll_return"
               /\ _conversion_active'
               /\ UNCHANGED <<tvars, evars>>
        /\ (wpc = "poll_return" /\ wpc' # wpc) => UNCHANGED <<tvars, evars, fvars>>
      ]_vars

\* the dropped trigger asked for another layout than the one being converted to
C2_Witness ==
    /\ wpc = "poll_return"
    /\ _conversion_active
    /\ \E t \in Threads :
         /\ Running(t)
         /\ target_layout[t] # current_layout
         /\ selected_text[t] = TextGh
         /\ previous_clipboard[t] # None

C5_ExceptionStillRestores ==
    \A t \in Threads :
        (Finished(t) /\ raised[t] /\ cap_previous_clipboard[t] # None)
            => /\ previous_clipboard[t] = cap_previous_clipboard[t]
               /\ CountOf(t, RestoreEvents) = 1

\* C6: a run that ended without an exception and wrote the marker or the
\* transformed text to the clipboard issued, as its last clipboard write, the
\* write that restores what the clipboard held when the run started.
C6_LastWriteRestores ==
    \A t \in Threads :
        (Finished(t) /\ ~raised[t]
           /\ (Has(t, "write_marker") \/ Has(t, "write_text")))
            => /\ LastClipboardWrite(t) \in RestoreEvents
               /\ previous_clipboard[t] = clipAtStart[t]

\* C7: when a run has ended without an exception and without a failed
\* clipboard write-back, the clipboard does not hold the marker the run wrote.
C7_MarkerGone ==
    \A t \in Threads :
        (pc[t] = "done" /\ ~raised[t] /\ ~Has(t, "restore_failed")
           /\ Has(t, "write_marker"))
            => clipboard # marker[t]

C9_FirstReadingNoTrigger ==
    /\ pollTriggers # <<>> => previous_layout # NoLayout
    /\ lastPoll.prev = NoLayout => lastPoll.triggers = <<>>
    /\ previous_layout = NoLayout => runs = 0 /\ ~_conversion_active

\* the startup read was unreadable and a later poll obtained the first reading
C9_Witness ==
    lastPoll = [prev |-> NoLayout, cur |-> "RUS", triggers |-> <<>>, ret |-> "RUS"]

\* C10: in a run whose capture yielded no text or the empty text, replace is
\* never called (no accessibility write, no write of a text, no paste
\* keystroke), and when the run has passed its finally clause with a snapshot
\* from capture, the restoring write was its last clipboard write.
C10_NoSelectionNoReplace ==
    \A t \in Threads :
        (pc[t] \in {"check", "finally", "clear", "done"}
           /\ NoSelection(selected_text[t]))
            => /\ CountOf(t, {"replace_call", "ax_write", "write_text",
                              "paste_key"}) = 0
               /\ (Finished(t) /\ previous_clipboard[t] # None)
                     => LastClipboardWrite(t) \in RestoreEvents

\* the copy delivered the empty text; nothing was replaced, the snapshot restored
C10_Witness ==
    \E t \in Threads :
        /\ pc[t] = "done"
        /\ selected_text[t] = TextEmpty
        /\ previous_clipboard[t] # None
        /\ Has(t, "restore")
        /\ ~Has(t, "replace_call")

\* the clipboard writes and keystrokes of _replace_selected_text
ReplaceEvents ==
    {"replace_call", "ax_write", "write_text", "write_text_failed", "paste_key"}
\* the run of t has passed the comparison of line 129
PastCheck(t) ==
    pc[t] \in {"replace_ax", "rep_write", "rep_paste", "finally", "clear", "done"}
\* every restoring write in the log of t comes after every event of replace
RestoreAfterReplace(t) ==
    \A i, j \in 1..Len(events[t]) :
        (events[t][i] \in RestoreEvents /\ events[t][j] \in ReplaceEvents)
            => j < i

\* C11: in a run whose captured text is non-empty and is left unchanged by the
\* mapper for the target layout, replace is never called (no accessibility
\* write, no write of a text to the clipboard, no paste keystroke), and once
\* the run has passed its finally clause a snapshot taken by capture has been
\* written back exactly once, as the last clipboard write of the run.
C11_UnchangedNoReplace ==
    \A t \in Threads :
        (PastCheck(t)
           /\ ~NoSelection(selected_text[t])
           /\ switch_layout(selected_text[t], target_layout[t])
                = selected_text[t])
            => /\ CountOf(t, ReplaceEvents) = 0
               /\ (Finished(t) /\ previous_clipboard[t] # None)
                     => /\ CountOf(t, RestoreEvents) = 1
                        /\ LastClipboardWrite(t) \in RestoreEvents

\* the digit "1" was captured through the clipboard; the mapper left it alone,
\* nothing was replaced and the snapshot went back
C11_Witness ==
    \E t \in Threads :
        /\ pc[t] = "done"
        /\ selected_text[t] = TextOne
        /\ converted[t] = TextOne
        /\ previous_clipboard[t] # None
        /\ Has(t, "restore")
        /\ CountOf(t, ReplaceEvents) = 0

\* C12: in a run whose captured text is non-empty and differs from its
\* transform, replace is called exactly once, with exactly
\* switch_layout(captured, target), and no restoring write happens before
\* replace has ended.
C12_ReplaceOnceWithTransform ==
    \A t \in Threads :
        (PastCheck(t)
           /\ ~NoSelection(selected_text[t])
           /\ switch_layout(selected_text[t], target_layout[t])
                # selected_text[t])
            => /\ CountOf(t, {"replace_call"}) = 1
               /\ converted[t]
                    = switch_layout(selected_text[t], target_layout[t])
               /\ converted[t] # selected_text[t]
               /\ pc[t] \in {"replace_ax", "rep_write", "rep_paste"}
                     => CountOf(t, RestoreEvents) = 0
               /\ RestoreAfterReplace(t)

\* "gh" was captured for the RUS layout, replace pasted "пр" and only then was
\* the snapshot written back
C12_Witness ==
    \E t \in Threads :
        /\ pc[t] = "done"
        /\ selected_text[t] = TextGh
        /\ target_layout[t] = "RUS"
        /\ converted[t] = <<1087, 1088>>
        /\ CountOf(t, {"replace_call"}) = 1
        /\ Has(t, "paste_key")
        /\ LastClipboardWrite(t) = "restore"

\* the polls of the series that are readable and differ from the marker
ChangedReads ==
    {i \in 1..Len(w_reads) : w_reads[i] # None /\ w_reads[i] # WaitMarker}

\* C13: a call of _wait_for_clipboard_change that has returned gives the first
\* read of the series that is readable and differs from the marker, having
\* skipped exactly the polls before it, and gives None when every poll before
\* the deadline returned the marker or was unreadable.
C13_FirstChangedValue ==
    w_pc = "returned" =>
        IF ChangedReads = {}
        THEN w_ret = None /\ w_pos = Len(w_reads)
        ELSE LET first == CHOOSE i \in ChangedReads :
                              \A j \in ChangedReads : i <= j
             IN  w_ret = w_reads[first] /\ w_pos = first

\* an unreadable poll and a poll giving the marker were skipped, then "gh" was
\* returned
C13_Witness ==
    /\ w_pc = "returned"
    /\ w_reads = <<None, WaitMarker, TextGh>>
    /\ w_ret = TextGh

\* every poll gave the marker or nothing until the deadline: None
C13_WitnessTimeout ==
    /\ w_pc = "returned"
    /\ w_reads = <<WaitMarker, None>>
    /\ w_ret = None

\* C14: a conversion thread in which an exception was raised goes on to its
\* finally clause and ends like any other, and no step of a conversion thread
\* changes the watcher's state; the watcher leaves its loop only after stop();
\* a poll that raised returns the watcher to the loop test with its previous
\* layout reading kept, and unless stop() was called the next step of the
\* watcher is the next poll.
C14_FailuresContained ==
    /\ [](\A t \in Threads : raised[t] => pc[t] \in {"finally", "clear", "done"})
    /\ [](wpc = "stopped" => _stop_event)
    /\ [][
            /\ (\E t \in Threads : Running(t) /\ pc'[t] # pc[t])
                => UNCHANGED wvars
            /\ (\E t \in Threads : ~raised[t] /\ raised'[t]) => UNCHANGED wvars
            /\ (lastPoll'.ret = "raised" /\ lastPoll' # lastPoll)
                => /\ wpc' = "loop"
                   /\ previous_layout' = previous_layout
            /\ (wpc = "loop" /\ lastPoll.ret = "raised" /\ ~_stop_event
                   /\ wpc' # wpc)
                => /\ wpc' = "poll"
                   /\ previous_layout' = previous_layout
          ]_vars

\* a run in which the paste keystroke raised has ended, a later trigger failed
\* to start its thread, and the watcher is polling again
C14_Witness ==
    /\ wpc = "poll"
    /\ ~_stop_event
    /\ _conversion_active
    /\ \A t \in Threads : ~Running(t)
    /\ \E t \in Threads : raised[t] /\ pc[t] = "done"

\* a key of EN_TO_RU, or the upper-case form of one
InMappedAlphabet(c) ==
    \E k \in DOMAIN EN_TO_RU : c = k \/ c = Upper(k)

\* C15: a text made only of keys of EN_TO_RU, in lower or upper case,
\* converted to RUS and the result converted to EN, comes back as it was.
C15_RoundTrip ==
    (/\ m_pc = "back"
     /\ m_layout = "RUS"
     /\ m_layout2 = "EN"
     /\ \A i \in 1..Len(m_word) : InMappedAlphabet(m_word[i]))
        => m_back = m_word

\* "Ghbdtn" became "Привет" and came back as "Ghbdtn"
C15_Witness ==
    /\ m_pc = "back"
    /\ m_word = TextGhbdtn
    /\ m_layout = "RUS"
    /\ m_out = <<1055, 1088, 1080, 1074, 1077, 1090>>
    /\ m_layout2 = "EN"
    /\ m_back = TextGhbdtn

\* neither c nor its lower- or upper-case form is a key of either table
OutsideAlphabet(c) ==
    {c, Lower(c), Upper(c)} \cap (DOMAIN EN_TO_RU \cup DOMAIN RU_TO_EN) = {}

\* C16: a text made only of characters outside the mapped alphabet is returned
\* unchanged by switch_layout, for the target EN and for the target RUS.
C16_UnmappedIdentity ==
    (/\ m_pc \in {"switched", "back"}
     /\ m_layout \in Layouts
     /\ \A i \in 1..Len(m_word) : OutsideAlphabet(m_word[i]))
        => m_out = m_word

\* the capital U+0402 (no key of either table) came out as it went in
C16_Witness ==
    /\ m_pc = "switched"
    /\ m_word = <<1026>>
    /\ m_layout = "EN"
    /\ m_out = <<1026>>

\* C17: a call of switch_layout whose to_layout is neither "EN" nor "RUS"
\* raises ValueError whatever the text, the empty text included, and gives
\* no text.
C17_InvalidLayoutRaises ==
    (m_pc # "input" /\ m_layout \notin {"EN", "RUS"})
        => m_out = ValueError /\ m_pc = "switched"

\* the empty text with to_layout "DE" raised
C17_Witness ==
    /\ m_pc = "switched"
    /\ m_word = TextEmpty
    /\ m_layout = "DE"
    /\ m_out = ValueError

\* C18: for a mapped character, an upper-case input gives the upper-case form
\* of the table's character and that output is upper case; any other input
\* gives the table's character as stored; for both target layouts.
C18_UppercaseInUppercaseOut ==
    (/\ m_pc = "switched"
     /\ m_layout \in Layouts
     /\ Len(m_word) = 1
     /\ Lower(m_word[1]) \in DOMAIN MappingFor(m_layout))
        => LET base == MappingFor(m_layout)[Lower(m_word[1])]
           IN  IF IsUpper(m_word[1])
               THEN m_out = <<Upper(base)>> /\ IsUpper(m_out[1])
               ELSE m_out = <<base>>

\* C19: when the process has exited after a stop (stop() followed by the
\* application terminating, or SIGINT/SIGTERM), every conversion that was in
\* flight has run to completion: none was cut short before its finally clause
\* wrote the snapshot back and released the guard.
C19_InFlightRunsToCompletion ==
    wpc = "exited" => \A t \in Threads : pc[t] \in {"none", "done"}

\* C20: in a process whose HIServices offers AXIsProcessTrustedWithOptions and
\* whose accessibility permission has not been granted, once run_forever has
\* made its startup check the prompting call has been made exactly once,
\* however many conversions have read the selection since.
C20_PromptedExactlyOnce ==
    (ax_pc = "running" /\ ax_api = "full" /\ ~ax_trusted) => ax_prompts = 1

\* the last call of the sequence made so far
LastCall ==
    IF as_history = <<>> THEN "none" ELSE as_history[Len(as_history)]

\* C21: after any sequence of enable() and disable() calls, whatever launchctl
\* did, is_enabled() is true when the last call was enable() and false when it
\* was disable(), and neither call ended by an exception; a disable() made
\* while the agent is disabled leaves it disabled and runs no launchctl.
C21_EnabledFollowsLastCall ==
    /\ [](LastCall = "enable" => plist_exists /\ ~as_raised)
    /\ [](LastCall = "disable" => ~plist_exists /\ ~as_raised)
    /\ [][(~plist_exists /\ as_history' = Append(as_history, "disable"))
            => (~plist_exists' /\ ~as_raised' /\ launchctl_calls' = <<>>)]_vars

\* enable, disable, disable again: disabled, although launchd still has the
\* agent because bootout failed
C21_Witness ==
    /\ as_history = <<"enable", "disable", "disable">>
    /\ launchctl_calls = <<>>
    /\ ~plist_exists
    /\ agent_loaded

\* C22: a poll issues at most one trigger, for the transition it has itself
\* detected; when the trigger is dropped because the guard is held, no thread
\* is started and the poll still returns the new reading, which becomes
\* previous_layout; a thread is started only inside the poll that detected
\* the transition it serves, once per poll.  So a dropped transition is served
\* neither then nor after the guard is released.
C22_DroppedNeverServed ==
    /\ [](wpc \in {"sched_acquire", "sched_check", "thread_start", "poll_return"}
            => /\ pollTriggers = <<current_layout>>
               /\ ShouldTrigger(previous_layout, current_layout))
    /\ [][
            /\ (wpc = "sched_check" /\ _conversion_active /\ wpc' # wpc)
                => /\ wpc' = "poll_return"
                   /\ UNCHANGED <<pc, runs, target_layout, current_layout>>
            /\ (wpc = "poll_return" /\ wpc' # wpc)
                => /\ previous_layout' = current_layout
                   /\ wpc' = "loop"
                   /\ UNCHANGED <<pc, runs>>
            /\ (runs' # runs \/ \E t \in Threads : pc'[t] = "start" /\ pc[t] # "start")
                => /\ wpc = "thread_start"
                   /\ wpc' = "poll_return"
                   /\ runs' = runs + 1
                   /\ \E t \in Threads :
                        /\ pc'[t] = "start"
                        /\ target_layout'[t] = current_layout
                        /\ \A u \in Threads \ {t} : pc'[u] = pc[u]
          ]_vars

\* the poll that has just returned detected a transition while a run for the
\* opposite one held the guard: its trigger was dropped, no second thread was
\* started, and the new reading is now previous_layout
C22_Witness ==
    /\ wpc = "loop"
    /\ lastPoll.ret # "none"
    /\ lastPoll.triggers = <<lastPoll.cur>>
    /\ previous_layout = lastPoll.cur
    /\ runs = 1
    /\ _conversion_active
    /\ \E t \in Threads : Running(t) /\ target_layout[t] = lastPoll.prev

\* what the clipboard-mediated capture does to the clipboard and the keyboard
ClipboardCaptureEvents == {"write_marker", "copy_key", "ll_copy_key"}

\* C23: a capture whose accessibility read gave a non-empty text returns that
\* text with no snapshot in the same step, without changing the clipboard; in
\* that run the clipboard was not read for a snapshot, no marker was made or
\* written, and no copy keystroke was sent.
C23_AxCaptureLeavesClipboard ==
    /\ [](\A t \in Threads :
            Has(t, "ax_read")
                => /\ events[t][1] = "ax_read"
                   /\ ~NoSelection(selected_text[t])
                   /\ previous_clipboard[t] = None
                   /\ cap_previous_clipboard[t] = None
                   /\ marker[t] = None
                   /\ CountOf(t, ClipboardCaptureEvents) = 0)
    /\ [][\A t \in Threads :
            (pc[t] = "start" /\ pc'[t] = "check")
                => /\ Has(t, "ax_read")'
                   /\ selected_text'[t] = selection'
                   /\ clipboard' = clipboard
                   /\ pendingCopy' = pendingCopy]_vars

\* the accessibility read gave "gh": capture has returned it, nothing else
\* has happened in the run
C23_Witness ==
    \E t \in Threads :
        /\ pc[t] = "check"
        /\ events[t] = <<"ax_read">>
        /\ selected_text[t] = TextGh
        /\ previous_clipboard[t] = None
        /\ clipboard = clipAtStart[t]

\* C24: in a run whose accessibility write succeeded, the transformed text is
\* not written to the clipboard and no paste keystroke is sent: the step of
\* the successful write ends replace with the clipboard unchanged; the
\* clipboard-mediated replace is entered only by a run whose accessibility
\* write did not succeed.
C24_AxWriteEndsReplace ==
    /\ [](\A t \in Threads :
            /\ Has(t, "ax_write")
                 => /\ CountOf(t, {"write_text", "paste_key"}) = 0
                    /\ pc[t] \in {"finally", "clear", "done"}
            /\ (pc[t] \in {"rep_write", "rep_paste"}
                   \/ Has(t, "write_text") \/ Has(t, "paste_key"))
                 => ~Has(t, "ax_write"))
    /\ [][\A t \in Threads :
            (~Has(t, "ax_write") /\ Has(t, "ax_write")')
                => /\ pc[t] = "replace_ax"
                   /\ pc'[t] = "finally"
                   /\ selection' = converted[t]
                   /\ clipboard' = clipboard]_vars

\* "gh" was replaced through the accessibility write; the run ended without a
\* text write or a paste keystroke
C24_Witness ==
    \E t \in Threads :
        /\ pc[t] = "done"
        /\ selected_text[t] = TextGh
        /\ Has(t, "replace_call")
        /\ Has(t, "ax_write")
        /\ ~Has(t, "write_text")
        /\ ~Has(t, "paste_key")

\* what _replace_selected_text has returned in the run of t: True after a
\* successful accessibility write (line 201) or after the paste keystroke and
\* the restore delay (line 220), False after a failed write of the text (line
\* 212); "none" while it has not returned or when it raised
ReplaceResult(t) ==
    IF Has(t, "ax_write") \/ Has(t, "paste_key") THEN "True"
    ELSE IF Has(t, "write_text_failed") THEN "False"
    ELSE "none"

\* C25: in a run that replaces through the clipboard, the paste keystroke
\* comes right after the write of the transformed text and every write-back
\* of the snapshot comes after both (after replace has waited the restore
\* delay and returned); nothing is written back while the paste is pending;
\* and when the write of the transformed text fails, no paste keystroke is
\* sent and replace returns False.
C25_ClipboardReplaceOrder ==
    \A t \in Threads :
        /\ \A j \in 1..Len(events[t]) :
              events[t][j] = "paste_key"
                  => j > 1 /\ events[t][j - 1] = "write_text"
        /\ \A i, k \in 1..Len(events[t]) :
              (events[t][i] \in {"write_text", "paste_key"}
                 /\ events[t][k] \in RestoreEvents) => i < k
        /\ pc[t] = "rep_paste"
              => /\ events[t][Len(events[t])] = "write_text"
                 /\ CountOf(t, RestoreEvents) = 0
        /\ Has(t, "write_text_failed")
              => /\ ~Has(t, "paste_key")
                 /\ ~Has(t, "write_text")
                 /\ ReplaceResult(t) = "False"

\* the whole clipboard route: marker, copy, replace, text write, paste, and
\* only then the write-back
C25_Witness ==
    \E t \in Threads :
        /\ pc[t] = "done"
        /\ events[t] = <<"write_marker", "copy_key", "replace_call",
                         "write_text", "paste_key", "restore">>

\* the write of the transformed text failed: no paste, the snapshot restored
C25_WitnessWriteFailed ==
    \E t \in Threads :
        /\ pc[t] = "done"
        /\ Has(t, "write_text_failed")
        /\ ReplaceResult(t) = "False"
        /\ LastClipboardWrite(t) = "restore"

\* the run of t made a marker (line 168) and its write failed (line 176)
MarkerWriteFailed(t) ==
    /\ marker[t] # None
    /\ pc[t] # "cap_write_marker"
    /\ ~Has(t, "write_marker")

\* C26: when the write of the marker fails, capture returns in that very step
\* with no text and with the snapshot read before the write; the run sends no
\* copy keystroke, primary or low-level, and never waits for a clipboard
\* change.
C26_MarkerWriteFailureAborts ==
    /\ [](\A t \in Threads :
            MarkerWriteFailed(t)
                => /\ pc[t] \in {"check", "finally", "clear", "done"}
                   /\ selected_text[t] = None
                   /\ previous_clipboard[t] = cap_previous_clipboard[t]
                   /\ CountOf(t, {"copy_key", "ll_copy_key"}) = 0
                   /\ ~raised[t])
    /\ [][\A t \in Threads :
            (pc[t] = "cap_write_marker" /\ pc'[t] # pc[t] /\ ~Has(t, "write_marker")')
                => /\ pc'[t] = "check"
                   /\ clipboard' = clipboard
                   /\ pendingCopy' = pendingCopy
                   /\ polls'[t] = 0]_vars

\* the marker could not be written: the run ended with the snapshot written
\* back and nothing else done
C26_Witness ==
    \E t \in Threads :
        /\ pc[t] = "done"
        /\ MarkerWriteFailed(t)
        /\ previous_clipboard[t] # None
        /\ events[t] = <<"restore">>

\* C27: in one call of _copy_selected_text_to_clipboard the low-level
\* keystroke is sent at most once and only after the primary one and a wait
\* that saw no change, and the polling after it goes on against the deadline
\* of the first wait: the clock never passes that deadline while the call is
\* polling, so the polling of one capture lasts one timeout at most.
C27_OneDeadlinePerCapture ==
    /\ Cardinality({i \in 1..Len(cp_keys) : cp_keys[i] = "ll_copy_key"}) <= 1
    /\ (cp_keys # <<>>) => cp_keys[1] = "copy_key"
    /\ cp_pc \in {"wait1", "wait2"}
         => /\ cp_deadline = cp_first_deadline
            /\ cp_clock <= cp_first_deadline

\* how far the watcher stands from the end of run_forever
WatcherRank ==
    CASE wpc = "init_read"     -> 7
      [] wpc = "poll"          -> 5
      [] wpc = "sched_acquire" -> 4
      [] wpc = "sched_check"   -> 3
      [] wpc = "thread_start"  -> 2
      [] wpc = "poll_return"   -> 1
      [] wpc = "loop"          -> 0
      [] OTHER                 -> -1

WatcherRankNext ==
    CASE wpc' = "init_read"     -> 7
      [] wpc' = "poll"          -> 5
      [] wpc' = "sched_acquire" -> 4
      [] wpc' = "sched_check"   -> 3
      [] wpc' = "thread_start"  -> 2
      [] wpc' = "poll_return"   -> 1
      [] wpc' = "loop"          -> 0
      [] OTHER                  -> -1

\* C28: once stop() has been called run_forever returns.  From then on every
\* step of the watcher brings it nearer to the return: the poll it is in (or
\* is sleeping before) is finished, returning or raising, the loop test that
\* follows ends the loop, and no second poll begins; a running conversion
\* does not hold it up.
C28_StopTerminatesWatcher ==
    /\ (_stop_event ~> wpc = "stopped")
    /\ [][
          /\ (_stop_event /\ wpc' # wpc) => WatcherRankNext < WatcherRank
          /\ (_stop_event /\ wpc = "loop") => wpc' \in {"loop", "stopped"}
        ]_vars

\* run_forever has returned after stop() while a conversion is in flight
C28_Witness ==
    /\ _stop_event
    /\ wpc = "stopped"
    /\ \E t \in Threads : Running(t)

\* stop() was called and the poll that followed raised; the loop test is next
C28_WitnessPollRaised ==
    /\ _stop_event
    /\ wpc = "loop"
    /\ lastPoll # NoPoll
    /\ lastPoll.ret = "raised"

\* C29: once stop() has set the event the watcher begins no iteration, no poll
\* issues a trigger and no conversion thread is started.
C29_NoTriggerAfterStop ==
    [][
      _stop_event =>
        /\ ~(wpc = "loop" /\ wpc' = "poll")
        /\ (pollTriggers' # pollTriggers) => (pollTriggers' = <<>>)
        /\ runs' = runs
    ]_vars

\* C30: the watcher never waits for a conversion.  The lock is held by the
\* watcher alone and exactly while it stands at the check-and-set of lines
\* 89-98: it is free when the thread is started and during every step of a
\* conversion.  Until run_forever has returned the watcher always has a step it
\* can take, whatever the conversion threads are doing and whether or not the
\* guard is held.
C30_WatcherNeverBlocks ==
    /\ _lock \in {"free", "watcher"}
    /\ (_lock = "watcher") <=> (wpc = "sched_check")
    /\ (wpc # "stopped") => ENABLED WatcherStep

\* while a conversion is between its capture and its end and holds the guard,
\* the watcher has finished a poll that detected a transition: it took and
\* released the lock, dropped the trigger, adopted the new reading and is back
\* at the loop test
C30_Witness ==
    /\ _conversion_active
    /\ \E t \in Threads :
         /\ Running(t)
         /\ events[t] # <<>>
         /\ target_layout[t] # lastPoll.cur
    /\ _lock = "free"
    /\ wpc = "loop"
    /\ lastPoll # NoPoll
    /\ lastPoll.triggers # <<>>
    /\ lastPoll.ret = lastPoll.cur
    /\ previous_layout = lastPoll.cur
    /\ runs = 1

\* C31: every reading _get_current_layout can return is EN, RUS or unreadable;
\* so the watcher's previous and current readings are, every trigger and every
\* target layout handed to a conversion thread is EN or RUS, and in no run
\* does switch_layout raise ValueError.
C31_TargetIsEnumerated ==
    /\ LayoutReadings \subseteq Layouts \cup {NoLayout}
    /\ previous_layout \in Layouts \cup {NoLayout}
    /\ current_layout \in Layouts \cup {NoLayout}
    /\ \A i \in 1..Len(pollTriggers) : pollTriggers[i] \in Layouts
    /\ \A t \in Threads :
         /\ pc[t] # "none" => target_layout[t] \in Layouts
         /\ converted[t] # ValueError
         /\ ~Has(t, "transform_raised")

\* a run started for RUS has transformed its captured text, and the readings
\* include both layouts and the unreadable one
C31_Witness ==
    /\ LayoutReadings = Layouts \cup {NoLayout}
    /\ \E t \in Threads :
         /\ target_layout[t] = "RUS"
         /\ selected_text[t] = TextGh
         /\ converted[t] = switch_layout(TextGh, "RUS")
         /\ Has(t, "replace_call")

\* C32: the launchctl commands of a call come in a fixed order that depends
\* only on whether the plist exists when the call begins.  enable() without a
\* plist: bootstrap alone; enable() with a plist: bootout, then bootstrap;
\* both after the plist is written.  disable() with a plist: bootout, then the
\* plist is deleted; disable() without a plist: no launchctl command.
C32_LaunchctlOrder ==
    [][
      (as_history' # as_history) =>
        LET call == as_history'[Len(as_history')]
        IN  /\ (call = "enable" /\ ~plist_exists)
                => /\ launchctl_calls' = <<"bootstrap">>
                   /\ as_ops' = <<"write_plist", "bootstrap">>
            /\ (call = "enable" /\ plist_exists)
                => /\ launchctl_calls' = <<"bootout", "bootstrap">>
                   /\ as_ops' = <<"write_plist", "bootout", "bootstrap">>
            /\ (call = "disable" /\ plist_exists)
                => /\ launchctl_calls' = <<"bootout">>
                   /\ as_ops' = <<"bootout", "unlink">>
            /\ (call = "disable" /\ ~plist_exists)
                => /\ launchctl_calls' = <<>>
                   /\ as_ops' = <<"unlink">>
    ]_vars

\* enable() on a fresh agent has issued bootstrap alone, disable() then
\* bootout, and a second enable() has been called on the absent plist
C32_Witness ==
    /\ as_history = <<"enable", "disable", "enable">>
    /\ launchctl_calls = <<"bootstrap">>
    /\ plist_exists

\* enable() on an existing plist has issued bootout and then bootstrap
C32_WitnessReload ==
    /\ as_history = <<"enable", "enable">>
    /\ as_ops = <<"write_plist", "bootout", "bootstrap">>

\* disable() twice: the second finds no plist and issues no launchctl command
C32_WitnessDisableAbsent ==
    /\ as_history = <<"enable", "disable", "disable">>
    /\ launchctl_calls = <<>>
    /\ as_ops = <<"unlink">>

\* C33: whenever the in-flight guard is held, either the watcher stands between
\* setting it and starting the thread, or a conversion thread is running that
\* has yet to clear it.
C33_GuardHasOwner ==
    _conversion_active =>
        \/ wpc = "thread_start"
        \/ \E t \in Threads : Running(t)

\* C34: the events of one run hold at most one primary copy keystroke, at most
\* one low-level copy keystroke and at most one paste keystroke.  A run with a
\* paste keystroke captured a non-empty text, its transform changed that text,
\* and the write of the transformed text to the clipboard succeeded before the
\* keystroke; a low-level copy keystroke follows the primary one.
C34_KeystrokesPerRun ==
    \A t \in Threads :
        /\ CountOf(t, {"copy_key"}) <= 1
        /\ CountOf(t, {"ll_copy_key"}) <= 1
        /\ CountOf(t, {"paste_key"}) <= 1
        /\ \A j \in 1..Len(events[t]) :
             /\ events[t][j] = "ll_copy_key"
                  => \E i \in 1..(j - 1) : events[t][i] = "copy_key"
             /\ events[t][j] = "paste_key"
                  => /\ ~NoSelection(selected_text[t])
                     /\ converted[t] = switch_layout(selected_text[t],
                                                      target_layout[t])
                     /\ converted[t] # selected_text[t]
                     /\ \E i \in 1..(j - 1) : events[t][i] = "write_text"
                     /\ ~Has(t, "write_text_failed")

\* a run that sent both copy keystrokes, captured "gh", wrote its transform to
\* the clipboard and sent the paste keystroke
C34_Witness ==
    \E t \in Threads :
        /\ Has(t, "copy_key")
        /\ Has(t, "ll_copy_key")
        /\ Has(t, "write_text")
        /\ Has(t, "paste_key")
        /\ selected_text[t] = TextGh

====
